---- MODULE Spec2Model ----
(***************************************************************************)
(* Model of cfrss: main (startup), the MongoDB store, the Codeforces       *)
(* client and the polling scheduler CodeforcesScheduler (filter, Start).   *)
(***************************************************************************)
EXTENDS Integers, Sequences, FiniteSets, Bags, TLC

\* ------------------------------------------------------------------ bounds
MaxT == 2           \* timeSeconds range over 0..MaxT
MaxLen == 2         \* longest batch the feed returns
MaxCycles == 2      \* cycles of Start that are explored
MaxInitStore == 1   \* documents in the collection when the process starts
MaxFeed == 2        \* items created in the remote feed
BatchSize == 1      \* sch.batchSize: how many recent items one fetch asks for

\* --------------------------------------------------------------- constants
kDefaultCoolDownMinutes == 5
SecondsPerMinute == 60

\* ------------------------------------------------------------------- data
\* models.RecentAction: timeSeconds is the only field the scheduler and the
\* store's queries look at; the rest of the document is carried along as is.
RecentAction == [timeSeconds : 0..MaxT]

SeqsUpTo(S, n) == UNION {[1..k -> S] : k \in 0..n}

\* A Go slice: nil and empty-but-allocated are different values.
NilSlice == [isNil |-> TRUE, items |-> <<>>]
MkSlice(s) == [isNil |-> FALSE, items |-> s]

\* Go's append(slice, x): the result is never nil.
GoAppend(slice, x) == [isNil |-> FALSE, items |-> Append(slice.items, x)]

NoErr == "nil"

Range(s) == {s[i] : i \in 1..Len(s)}

MaxOf(S) == CHOOSE m \in S : \A x \in S : x <= m

\* The documents of a list, as an unordered collection with multiplicity.
SeqToBag(s) ==
    [x \in Range(s) |-> Cardinality({i \in 1..Len(s) : s[i] = x})]

\* ------------------------------------------------------------------ state
VARIABLES
    pc,                          \* position of main / Start
    store,                       \* documents of the recent_actions collection
    lastInsertedTimestamp,       \* sch.lastInsertedTimestamp
    actions,                     \* Start: actions
    newActions,                  \* Start: newActions
    maxTimestampAfterInsertion,  \* Start: maxTimestampAfterInsertion
    err,                         \* Start: err of the cycle
    cycle,                       \* completed cycles (history)
    wmAtCycleStart,              \* watermark when the cycle's fetch began (history)
    storeAtCycleStart,           \* store when the cycle's fetch began (history)
    fetched,                     \* items returned by successful fetches (history)
    committed,                   \* items of batches whose append succeeded (history)
    acked,                       \* items that were newer than the watermark when
                                 \* fetched, in a cycle whose append succeeded (history)
    cooldown,                    \* sch.cooldown, in seconds
    response,                    \* what the remote end did on the last fetch
    fetches,                     \* calls of RecentActions so far (history)
    slept,                       \* the durations of the sleeps so far (history)
    failures,                    \* cycles that failed since RecentActions last succeeded (history)
    storeFaithful,               \* the seed was the store's maximum and no failed
                                 \* append left documents behind (history)
    feed,                        \* the remote feed, oldest item first
    createdNew,                  \* feed items created above the watermark (history, bag)
    createdInOutage,             \* of those, the ones created while failures >= 1 (history)
    skipped,                     \* of those, the ones missing from the batch of the
                                 \* cycle that moved the watermark over them (history, bag)
    apiCall,                     \* the last direct call of a store method
    apiResult                    \* what that call returned

feedVars == <<feed, createdNew, createdInOutage>>
apiVars == <<apiCall, apiResult>>

vars == <<pc, store, lastInsertedTimestamp, actions, newActions,
          maxTimestampAfterInsertion, err, cycle, wmAtCycleStart,
          storeAtCycleStart, fetched, committed, acked, cooldown, response,
          fetches, slept, failures, storeFaithful, skipped, feedVars,
          apiVars>>

\* ------------------------------------------------------------ cfapi client
FetchFailures == {"request", "transport", "read", "parse", "status"}

\* RecentActions handing back the result list without looking at the status.
RecentActions_mutNoStatusCheck(failure, result) ==
    IF failure = "request" THEN [items |-> NilSlice, err |-> "request"]
    ELSE IF failure = "transport" THEN [items |-> NilSlice, err |-> "transport"]
    ELSE IF failure = "read" THEN [items |-> NilSlice, err |-> "read"]
    ELSE IF failure = "parse" THEN [items |-> NilSlice, err |-> "parse"]
    ELSE [items |-> result, err |-> NoErr]

\* codeforcesClient.RecentActions: every failed stage returns (nil, error),
\* only a parsed response with status OK returns (wrapper.Result, nil).
RecentActions(failure, result) ==
    IF failure = "request" THEN [items |-> NilSlice, err |-> "request"]
    ELSE IF failure = "transport" THEN [items |-> NilSlice, err |-> "transport"]
    ELSE IF failure = "read" THEN [items |-> NilSlice, err |-> "read"]
    ELSE IF failure = "parse" THEN [items |-> NilSlice, err |-> "parse"]
    ELSE IF failure = "status" THEN [items |-> NilSlice, err |-> "status"]
    ELSE [items |-> result, err |-> NoErr]

\* ------------------------------------------------------------------ store
\* Collection.InsertMany: an empty document list is rejected; a failed
\* (ordered) bulk write leaves the first `written` documents inserted.
InsertMany(coll, docs, ok, written) ==
    IF Len(docs) = 0 THEN [coll |-> coll, err |-> "insert"]
    ELSE IF ok THEN [coll |-> coll (+) SeqToBag(docs), err |-> NoErr]
    ELSE [coll |-> coll (+) SeqToBag(SubSeq(docs, 1, written)),
          err |-> "insert"]

\* AddRecentActions with a failed bulk insert reported as success.
AddRecentActions_mutSwallow(coll, acts, ok, written) ==
    IF acts.isNil THEN [coll |-> coll, err |-> NoErr]
    ELSE [coll |-> InsertMany(coll, acts.items, ok, written).coll, err |-> NoErr]

\* AddRecentActions without the early return for a nil slice.
AddRecentActions_mutNoNilCheck(coll, acts, ok, written) ==
    InsertMany(coll, acts.items, ok, written)

\* mongoStore.AddRecentActions
AddRecentActions(coll, acts, ok, written) ==
    IF acts.isNil THEN [coll |-> coll, err |-> NoErr]
    ELSE InsertMany(coll, acts.items, ok, written)

\* mongoStore.LastRecordedTimestampForRecentActions; outcome is the result of
\* the aggregation call: "ok", "aggregate" (call failed), "decode".
LastRecordedTimestampForRecentActions(coll, outcome) ==
    IF outcome = "aggregate" THEN 0
    ELSE IF coll = EmptyBag THEN 0
    ELSE IF outcome = "decode" THEN 0
    ELSE MaxOf({d.timeSeconds : d \in BagToSet(coll)})

\* -------------------------------------------------------------- scheduler
\* filterStep keeping items equal to the watermark (>= for >).
filterStep_mutGe(W, acc, action) ==
    LET now == action.timeSeconds
        mx == IF now > acc[2] THEN now ELSE acc[2]
        na == IF now >= W THEN GoAppend(acc[1], action) ELSE acc[1]
    IN <<na, mx>>

\* filterStep comparing against the running maximum instead of the watermark.
filterStep_mutRunningMax(W, acc, action) ==
    LET now == action.timeSeconds
        mx == IF now > acc[2] THEN now ELSE acc[2]
        na == IF now > acc[2] THEN GoAppend(acc[1], action) ELSE acc[1]
    IN <<na, mx>>

\* filterStep taking the last timestamp seen as the maximum.
filterStep_mutNoCompare(W, acc, action) ==
    LET now == action.timeSeconds
        mx == now
        na == IF now > W THEN GoAppend(acc[1], action) ELSE acc[1]
    IN <<na, mx>>

\* One iteration of the loop body of filter; acc = <<newActions, max>>.
filterStep(W, acc, action) ==
    LET now == action.timeSeconds
        mx == IF now > acc[2] THEN now ELSE acc[2]
        na == IF now > W THEN GoAppend(acc[1], action) ELSE acc[1]
    IN <<na, mx>>

RECURSIVE filterLoop(_, _, _, _)
filterLoop(W, acts, i, acc) ==
    IF i > Len(acts) THEN acc
    ELSE filterLoop(W, acts, i + 1, filterStep(W, acc, acts[i]))

\* filter starting its maximum at zero instead of the current watermark.
filter_mutZeroMax(W, acts) == filterLoop(W, acts.items, 1, <<NilSlice, 0>>)

\* CodeforcesScheduler.filter
filter(W, acts) == filterLoop(W, acts.items, 1, <<NilSlice, W>>)

\* ------------------------------------------------------------------- Init
NoResponse == [failure |-> "none", result |-> NilSlice]
NoCall == [op |-> "none"]

InitStores == {SeqToBag(s) : s \in SeqsUpTo(RecentAction, MaxInitStore)}

Init ==
    /\ pc = "connect"
    /\ store \in InitStores
    /\ lastInsertedTimestamp = 0
    /\ actions = NilSlice
    /\ newActions = NilSlice
    /\ maxTimestampAfterInsertion = 0
    /\ err = NoErr
    /\ cycle = 0
    /\ wmAtCycleStart = 0
    /\ storeAtCycleStart = store
    /\ fetched = {}
    /\ committed = {}
    /\ acked = {}
    /\ cooldown = 0
    /\ response = NoResponse
    /\ fetches = 0
    /\ slept = <<>>
    /\ failures = 0
    /\ storeFaithful = TRUE
    /\ feed = <<>>
    /\ createdNew = EmptyBag
    /\ createdInOutage = {}
    /\ skipped = EmptyBag
    /\ apiCall = NoCall
    /\ apiResult = NoCall

\* ------------------------------------------------------------------- main
ConnectOutcomes == {"ok", "connect", "ping"}

\* NewMongoStore: connect, then ping; either failure returns an error.
NewMongoStore(outcome) ==
    IF outcome = "connect" THEN "connect"
    ELSE IF outcome = "ping" THEN "ping"
    ELSE NoErr

\* main going on to build the scheduler although the store is missing.
AfterConnect_mutIgnore(e) == "seed"

\* main, "if err != nil { zap.S().Fatal(err) }": Fatal ends the process.
AfterConnect(e) == IF e # NoErr THEN "exit" ELSE "seed"

\* main: create the store.
MainConnect ==
    /\ pc = "connect"
    /\ \E outcome \in ConnectOutcomes :
          /\ err' = NewMongoStore(outcome)
          /\ pc' = AfterConnect(err')
    /\ UNCHANGED <<store, lastInsertedTimestamp, actions, newActions,
                   maxTimestampAfterInsertion, cycle, wmAtCycleStart,
                   storeAtCycleStart, fetched, committed, acked>>
    /\ UNCHANGED <<cooldown, response, fetches, slept, failures,
                   storeFaithful, skipped, feedVars, apiVars>>

AggregateOutcomes == {"ok", "aggregate", "decode"}

\* NewScheduler: the watermark field is the value handed in by main.
NewScheduler(ts) == ts

\* main: time.Duration(coolDownInMinutes) * time.Minute, here in seconds.
CoolDown(minutes) == minutes * SecondsPerMinute

\* main: read the last recorded timestamp, build the scheduler, go Start().
MainSeed ==
    /\ pc = "seed"
    /\ \E outcome \in AggregateOutcomes :
          lastInsertedTimestamp' =
              NewScheduler(LastRecordedTimestampForRecentActions(store, outcome))
    /\ cooldown' = CoolDown(kDefaultCoolDownMinutes)
    /\ wmAtCycleStart' = lastInsertedTimestamp'
    /\ storeFaithful' =
          (lastInsertedTimestamp' = IF store = EmptyBag THEN 0
                                    ELSE MaxOf({d.timeSeconds : d \in BagToSet(store)}))
    /\ pc' = "fetch"
    /\ UNCHANGED <<store, actions, newActions, maxTimestampAfterInsertion,
                   err, cycle, storeAtCycleStart, fetched, committed, acked>>
    /\ UNCHANGED <<response, fetches, slept, failures, skipped, feedVars,
                   apiVars>>

\* ------------------------------------------------------------------ Start
\* What the feed may answer: nil, an empty list, or any batch up to MaxLen.
Batches == {NilSlice} \cup {MkSlice(s) : s \in SeqsUpTo(RecentAction, MaxLen)}

\* Start running filter and append even though the fetch failed.
AfterFetch_mutAlwaysFilter(e) == "filter"

\* Start calling RecentActions again at once after a failed fetch.
AfterFetch_mutRetry(e) == IF e # NoErr THEN "fetch" ELSE "filter"

\* Start leaving the loop after a failed fetch.
AfterFetch_mutReturn(e) == IF e # NoErr THEN "exit" ELSE "filter"

\* Start, "if err != nil { log } else { filter ... }": where the loop goes
\* after RecentActions has returned.
AfterFetch(e) == IF e # NoErr THEN "cooldown" ELSE "filter"

\* What the remote end can do with a request that asks for the batch
\* `result`: a stage of the call fails, or the body parses with a status
\* that is OK or not; only a parsed body carries a result list (for a
\* status that is not OK, one of at most one item).
ResponsesWith(results) ==
    {[failure |-> f, result |-> NilSlice] :
        f \in {"request", "transport", "read", "parse"}}
    \cup {[failure |-> "status", result |-> b] :
             b \in {x \in results : Len(x.items) <= 1}}
    \cup {[failure |-> "none", result |-> b] : b \in results}

\* Start: actions, err := sch.cfClient.RecentActions(sch.batchSize), the
\* remote end answering with one of `responses`.
Fetch(responses) ==
    /\ pc = "fetch"
    /\ cycle < MaxCycles
    /\ \E resp \in responses :
          LET r == RecentActions(resp.failure, resp.result) IN
          /\ response' = resp
          /\ actions' = r.items
          /\ err' = r.err
          /\ pc' = AfterFetch(r.err)
          /\ fetched' = IF r.err = NoErr
                           THEN fetched \cup Range(r.items.items)
                           ELSE fetched
          /\ failures' = IF r.err = NoErr THEN 0 ELSE failures
    /\ fetches' = fetches + 1
    /\ UNCHANGED <<store, lastInsertedTimestamp, newActions,
                   maxTimestampAfterInsertion, cycle, wmAtCycleStart,
                   storeAtCycleStart, committed, acked>>
    /\ UNCHANGED <<cooldown, slept, storeFaithful, skipped,
                   feedVars, apiVars>>

\* Start's fetch against a remote end that may answer with any batch.
StartFetch == Fetch(ResponsesWith(Batches))

\* filter moving the watermark itself while it scans.
StartFilter_mutCommits ==
    /\ pc = "filter"
    /\ LET r == filter(lastInsertedTimestamp, actions) IN
          /\ newActions' = r[1]
          /\ maxTimestampAfterInsertion' = r[2]
          /\ lastInsertedTimestamp' = r[2]
    /\ pc' = "persist"
    /\ UNCHANGED <<store, actions, err, cycle,
                   wmAtCycleStart, storeAtCycleStart, fetched, committed, acked>>
    /\ UNCHANGED <<cooldown, response, fetches, slept, failures,
                   storeFaithful, skipped, feedVars, apiVars>>

\* Start: newActions, maxTimestampAfterInsertion := sch.filter(actions)
StartFilter ==
    /\ pc = "filter"
    /\ LET r == filter(lastInsertedTimestamp, actions) IN
          /\ newActions' = r[1]
          /\ maxTimestampAfterInsertion' = r[2]
    /\ pc' = "persist"
    /\ UNCHANGED <<store, lastInsertedTimestamp, actions, err, cycle,
                   wmAtCycleStart, storeAtCycleStart, fetched, committed, acked>>
    /\ UNCHANGED <<cooldown, response, fetches, slept, failures,
                   storeFaithful, skipped, feedVars, apiVars>>

\* Start swapping the watermark whether or not the append succeeded.
CommitWatermark_mutAlways(e, W, candidate) == candidate

\* Start never swapping the watermark.
CommitWatermark_mutNever(e, W, candidate) == W

\* Start, "if err := AddRecentActions(..); err != nil { log } else { swap }":
\* the watermark after the append has returned e.
CommitWatermark(e, W, candidate) == IF e # NoErr THEN W ELSE candidate

\* Monus on counts.
Minus(a, b) == IF a > b THEN a - b ELSE 0

\* Of the items in `created`, those with a timestamp in (W, W2] that are not
\* in `batch`, with multiplicity: the items a watermark move from W to W2
\* on account of `batch` passes over.
MissedBy(created, batch, W, W2) ==
    LET passed == {x \in BagToSet(created) :
                      /\ x.timeSeconds > W
                      /\ x.timeSeconds <= W2
                      /\ CopiesIn(x, created) > CopiesIn(x, SeqToBag(batch))}
    IN [x \in passed |-> Minus(CopiesIn(x, created), CopiesIn(x, SeqToBag(batch)))]

\* Start: the append call and the swap that follows it.
StartPersist ==
    /\ pc = "persist"
    /\ \E ok \in BOOLEAN, written \in 0..Len(newActions.items) :
          LET r == AddRecentActions(store, newActions, ok, written) IN
          /\ ok => written = Len(newActions.items)
          /\ store' = r.coll
          /\ err' = r.err
          /\ lastInsertedTimestamp' =
                CommitWatermark(r.err, lastInsertedTimestamp,
                                maxTimestampAfterInsertion)
          /\ committed' = IF r.err = NoErr
                             THEN committed \cup Range(actions.items)
                             ELSE committed
          /\ acked' = IF r.err = NoErr
                         THEN acked \cup {x \in Range(actions.items) :
                                            x.timeSeconds > lastInsertedTimestamp}
                         ELSE acked
          /\ storeFaithful' =
                (storeFaithful /\ ~(r.err # NoErr /\ r.coll # store))
    /\ skipped' = skipped (+) MissedBy(createdNew, actions.items,
                                       lastInsertedTimestamp,
                                       lastInsertedTimestamp')
    /\ pc' = "cooldown"
    /\ UNCHANGED <<actions, newActions, maxTimestampAfterInsertion, cycle,
                   wmAtCycleStart, storeAtCycleStart, fetched>>
    /\ UNCHANGED <<cooldown, response, fetches, slept, failures, feedVars,
                   apiVars>>

\* Start sleeping twice as long after a failed cycle.
SleepDuration_mutBackoff(cd, e) == IF e # NoErr THEN 2 * cd ELSE cd

\* Start, time.Sleep(sch.cooldown): the duration slept, whatever err is.
SleepDuration(cd, e) == cd

\* Start: time.Sleep(sch.cooldown), then the next iteration begins with
\* fresh locals.
StartCooldown ==
    /\ pc = "cooldown"
    /\ cycle' = cycle + 1
    /\ pc' = "fetch"
    /\ actions' = NilSlice
    /\ newActions' = NilSlice
    /\ maxTimestampAfterInsertion' = 0
    /\ err' = NoErr
    /\ wmAtCycleStart' = lastInsertedTimestamp
    /\ storeAtCycleStart' = store
    /\ slept' = Append(slept, SleepDuration(cooldown, err))
    /\ failures' = IF err # NoErr THEN failures + 1 ELSE 0
    /\ UNCHANGED <<store, lastInsertedTimestamp, fetched, committed, acked>>
    /\ response' = NoResponse
    /\ UNCHANGED <<cooldown, fetches, storeFaithful, skipped,
                   feedVars, apiVars>>

Next ==
    \/ MainConnect
    \/ MainSeed
    \/ StartFetch
    \/ StartFilter
    \/ StartPersist
    \/ StartCooldown

Spec == Init /\ [][Next]_vars

\* ------------------------------------------------------------ remote feed
\* A new item appears in the remote feed; the site's clock does not go back.
FeedCreate ==
    /\ pc \in {"fetch", "filter", "persist", "cooldown"}
    /\ Len(feed) < MaxFeed
    /\ \E t \in 0..MaxT :
          LET item == [timeSeconds |-> t] IN
          /\ feed # <<>> => t >= feed[Len(feed)].timeSeconds
          /\ feed' = Append(feed, item)
          /\ createdNew' = IF t > lastInsertedTimestamp
                              THEN createdNew (+) SetToBag({item})
                              ELSE createdNew
          /\ createdInOutage' = IF t > lastInsertedTimestamp /\ failures >= 1
                                   THEN createdInOutage \cup {item}
                                   ELSE createdInOutage
    /\ UNCHANGED <<pc, store, lastInsertedTimestamp, actions, newActions,
                   maxTimestampAfterInsertion, err, cycle, wmAtCycleStart,
                   storeAtCycleStart, fetched, committed, acked, cooldown,
                   response, fetches, slept, failures, storeFaithful,
                   skipped, apiVars>>

\* The maxCount most recent items of the feed, most recent first.
FeedWindow(maxCount) ==
    LET n == Len(feed)
        k == IF n < maxCount THEN n ELSE maxCount
    IN [i \in 1..k |-> feed[n - i + 1]]

\* Start's fetch against the remote feed.
FeedFetch == Fetch(ResponsesWith({MkSlice(FeedWindow(BatchSize))}))

FeedNext ==
    \/ MainConnect
    \/ MainSeed
    \/ FeedCreate
    \/ FeedFetch
    \/ StartFilter
    \/ StartPersist
    \/ StartCooldown

FeedSpec == Init /\ [][FeedNext]_vars

TypeOK ==
    /\ pc \in {"connect", "seed", "fetch", "filter", "persist", "cooldown", "exit"}
    /\ lastInsertedTimestamp \in 0..MaxT
    /\ cycle \in 0..MaxCycles

\* ------------------------------------------------------------- properties
Times(s) == {s[i].timeSeconds : i \in 1..Len(s)}

FetchFailed == err \in FetchFailures

\* C1: the watermark never decreases: no step of the program, whatever the
\* outcome of the fetch and of the append and whatever the batch, takes
\* lastInsertedTimestamp to a smaller value.
WatermarkMonotonic ==
    [][lastInsertedTimestamp' >= lastInsertedTimestamp]_vars

\* A later cycle has ended with the watermark above its value at cycle start.
WatermarkAdvancedInLaterCycle ==
    /\ pc = "cooldown"
    /\ cycle >= 1
    /\ lastInsertedTimestamp > wmAtCycleStart
    /\ wmAtCycleStart > 0

\* C2: when AddRecentActions returns an error, the step leaves the watermark
\* at the value it had at the start of the cycle and goes to cooldown.
AppendFailureKeepsWatermark ==
    [][(pc = "persist" /\ err' # NoErr) =>
          /\ lastInsertedTimestamp' = lastInsertedTimestamp
          /\ lastInsertedTimestamp' = wmAtCycleStart
          /\ pc' = "cooldown"]_vars

\* An append failed although the batch carried a higher candidate watermark.
AppendFailedWithHigherCandidate ==
    /\ pc = "cooldown"
    /\ err = "insert"
    /\ maxTimestampAfterInsertion > lastInsertedTimestamp

\* C3: when RecentActions returns an error, the same step goes to cooldown
\* (filter and append are skipped) and store and watermark are unchanged.
FetchFailureSkipsCycle ==
    [][(pc = "fetch" /\ err' # NoErr) =>
          /\ pc' = "cooldown"
          /\ store' = store
          /\ store' = storeAtCycleStart
          /\ lastInsertedTimestamp' = lastInsertedTimestamp
          /\ lastInsertedTimestamp' = wmAtCycleStart
          /\ newActions' = NilSlice]_vars

\* A fetch failed in a cycle that follows one which stored something.
FetchFailedAfterProgress ==
    /\ pc = "cooldown"
    /\ FetchFailed
    /\ cycle >= 1
    /\ acked # {}

\* C4: once the scheduler runs, every step that changes the watermark is the
\* append step of a cycle whose fetch succeeded, the append returned success
\* having stored all of newActions, and the value written is the candidate
\* that filter yields for the cycle's batch.
WatermarkWrittenOnlyAfterAppend ==
    [][(pc \notin {"connect", "seed"}
          /\ lastInsertedTimestamp' # lastInsertedTimestamp) =>
          /\ pc = "persist"
          /\ err = NoErr
          /\ err' = NoErr
          /\ store' = store (+) SeqToBag(newActions.items)
          /\ lastInsertedTimestamp' = filter(wmAtCycleStart, actions)[2]]_vars

\* A cycle has stored items and moved the watermark.
WatermarkCommitted ==
    /\ pc = "cooldown"
    /\ err = NoErr
    /\ lastInsertedTimestamp # wmAtCycleStart
    /\ BagCardinality(store) > BagCardinality(storeAtCycleStart)

\* C5: newItems is exactly the subsequence of the batch with timeSeconds
\* above the watermark: same items, same multiplicity, same relative order.
FilterSelectsNewer ==
    pc = "persist" =>
        newActions.items =
            SelectSeq(actions.items,
                      LAMBDA a : a.timeSeconds > lastInsertedTimestamp)

\* An unsorted batch has been filtered: two newer items, the later one
\* in the batch being the older, and both were kept.
FilterUnsortedBatch ==
    /\ pc = "persist"
    /\ \E j, k \in 1..Len(actions.items) :
          /\ j < k
          /\ actions.items[k].timeSeconds > lastInsertedTimestamp
          /\ actions.items[j].timeSeconds > actions.items[k].timeSeconds
    /\ Len(newActions.items) = 2

\* C6: the candidate watermark is the maximum of the watermark and of all
\* timestamps of the batch; a batch that is empty or all stale gives the
\* watermark itself and no new items.
FilterCandidateIsMax ==
    pc = "persist" =>
        /\ maxTimestampAfterInsertion =
              MaxOf({lastInsertedTimestamp} \cup Times(actions.items))
        /\ (\A t \in Times(actions.items) : t <= lastInsertedTimestamp) =>
              /\ maxTimestampAfterInsertion = lastInsertedTimestamp
              /\ Len(newActions.items) = 0

\* The maximum of the batch is above the watermark and is not its last item.
FilterMaxInsideBatch ==
    /\ pc = "persist"
    /\ Len(actions.items) >= 2
    /\ maxTimestampAfterInsertion > lastInsertedTimestamp
    /\ actions.items[Len(actions.items)].timeSeconds < maxTimestampAfterInsertion
    /\ lastInsertedTimestamp > 0

\* C7: no replayed item is inserted again: what is handed to the append is
\* never an item of a batch whose cycle's append succeeded, and never an
\* item at or below the watermark.
NoReplayInsert ==
    pc = "persist" =>
        \A x \in Range(newActions.items) :
            /\ x \notin committed
            /\ x.timeSeconds > lastInsertedTimestamp

\* The feed returns again an item stored by an earlier cycle, together with
\* a newer one; only the newer one is handed to the append.
ReplayedBatchFiltered ==
    /\ pc = "persist"
    /\ cycle >= 1
    /\ \E x \in Range(actions.items) : x \in acked /\ BagIn(x, store)
    /\ Len(newActions.items) = 1
    /\ Len(actions.items) >= 2

StoreMax(coll) ==
    IF coll = EmptyBag THEN 0
    ELSE MaxOf({d.timeSeconds : d \in BagToSet(coll)})

\* C9: when Start is about to make its first fetch, the watermark is the
\* maximum timeSeconds held in the store (0 for an empty store).
SeedIsStoreMax ==
    (pc = "fetch" /\ cycle = 0) => lastInsertedTimestamp = StoreMax(store)

\* C10: an append step with no new items returns no error, leaves the store
\* as it was at the start of the cycle, and leaves the watermark at its
\* value at the start of the cycle.
EmptyNewItemsNoOp ==
    [][(pc = "persist" /\ Len(newActions.items) = 0) =>
          /\ err' = NoErr
          /\ store' = store
          /\ store' = storeAtCycleStart
          /\ lastInsertedTimestamp' = lastInsertedTimestamp
          /\ lastInsertedTimestamp' = wmAtCycleStart]_vars

\* A cycle whose batch was non-empty and all stale has been persisted.
AllStaleBatchPersisted ==
    /\ pc = "cooldown"
    /\ err = NoErr
    /\ Len(actions.items) >= 2
    /\ newActions = NilSlice
    /\ \A t \in Times(actions.items) : t <= lastInsertedTimestamp

\* -------------------------------------------------------------- liveness
\* The scheduler polling the remote feed. Start runs on its own goroutine
\* while main waits forever, and every collaborator call and the sleep
\* return: each step of main and Start that is enabled is eventually
\* taken. Nothing obliges the feed to receive new items.
LiveSpec ==
    /\ Init
    /\ [][FeedNext]_vars
    /\ WF_vars(MainConnect)
    /\ WF_vars(MainSeed)
    /\ WF_vars(FeedFetch)
    /\ WF_vars(StartFilter)
    /\ WF_vars(StartPersist)
    /\ WF_vars(StartCooldown)

\* ------------------------------------------------- the store on its own
\* mongoStore.QueryRecentActions; outcome is how the calls on the collection
\* went: "ok", "find" (Find failed), "decode" (cursor.All failed). The result
\* is the bag of documents the filter {timeSeconds: {$gte: timestamp}} keeps.
QueryRecentActions(coll, timestamp, outcome) ==
    IF outcome = "find" THEN [docs |-> EmptyBag, err |-> "find"]
    ELSE IF outcome = "decode" THEN [docs |-> EmptyBag, err |-> "decode"]
    ELSE [docs |-> [d \in {x \in BagToSet(coll) : x.timeSeconds >= timestamp}
                       |-> coll[d]],
          err |-> NoErr]

QueryOutcomes == {"ok", "find", "decode"}

\* The variables a direct call of a store method leaves alone.
schedulerVars ==
    <<pc, lastInsertedTimestamp, actions, newActions,
      maxTimestampAfterInsertion, err, cycle, wmAtCycleStart,
      storeAtCycleStart, fetched, committed, acked, cooldown, response,
      fetches, slept, failures, storeFaithful, skipped, feedVars>>

\* A caller of the CodeforcesStore interface, other than Start, calls
\* AddRecentActions on the connected store with any slice: nil, empty or not.
ApiAddRecentActions ==
    /\ pc = "seed"
    /\ \E acts \in {NilSlice} \cup {MkSlice(q) : q \in SeqsUpTo(RecentAction, MaxLen)},
          ok \in BOOLEAN :
          \E written \in 0..Len(acts.items) :
             LET r == AddRecentActions(store, acts, ok, written) IN
             /\ BagCardinality(store) + Len(acts.items) <= MaxInitStore + MaxLen
             /\ ok => written = Len(acts.items)
             /\ store' = r.coll
             /\ apiCall' = [op |-> "add", actions |-> acts]
             /\ apiResult' = [err |-> r.err, added |-> r.coll (-) store]
    /\ UNCHANGED schedulerVars

\* The same caller calls QueryRecentActions.
ApiQueryRecentActions ==
    /\ pc = "seed"
    /\ \E timestamp \in 0..MaxT, outcome \in QueryOutcomes :
          LET r == QueryRecentActions(store, timestamp, outcome) IN
          /\ apiCall' = [op |-> "query", timestamp |-> timestamp]
          /\ apiResult' = r
    /\ UNCHANGED store
    /\ UNCHANGED schedulerVars

StoreNext == MainConnect \/ ApiAddRecentActions \/ ApiQueryRecentActions

StoreSpec == Init /\ [][StoreNext]_vars

StartPcs == {"fetch", "filter", "persist", "cooldown"}

\* A step of the loop of Start.
StartStep == FeedFetch \/ StartFilter \/ StartPersist \/ StartCooldown

\* C11: a cycle that ended in a fetch or an append error is followed by the
\* next call of RecentActions (within the cycles explored), no step leaves
\* the loop of Start once it has been entered, and no state of Start is
\* terminal: some step of the loop is always enabled.
SchedulerSurvivesErrors ==
    /\ \A k \in 0..(MaxCycles - 2) :
          (pc = "cooldown" /\ err # NoErr /\ cycle = k)
              ~> (cycle = k + 1 /\ fetches = k + 2)
    /\ [][(pc \in StartPcs) => (pc' \in StartPcs)]_vars
    /\ []((pc \in StartPcs /\ cycle < MaxCycles) => ENABLED StartStep)

\* RecentActions has been called again after a failed cycle, and that call
\* has failed as well.
FetchAfterFailures ==
    /\ failures >= 1
    /\ cycle >= 1
    /\ fetches = cycle + 1
    /\ FetchFailed
    /\ pc = "cooldown"

\* C13 as stated, in the form a finite run refutes: the watermark is never
\* at or above the timeSeconds of an item that was created above the
\* watermark and is not in the store (such an item is dropped by filter in
\* every later cycle, so it would never be appended).
CreatedItemsNeverPassedOver ==
    \A x \in BagToSet(createdNew) :
        x.timeSeconds <= lastInsertedTimestamp =>
            CopiesIn(x, store) >= CopiesIn(x, createdNew)

\* C13 amended: an item created above the watermark is in the store once the
\* watermark has reached its timeSeconds, unless it was missing from the
\* batch of the cycle that moved the watermark over it.
CreatedItemsStoredUnlessSkipped ==
    \A x \in BagToSet(createdNew) :
        x.timeSeconds <= lastInsertedTimestamp =>
            CopiesIn(x, store) + CopiesIn(x, skipped) >= CopiesIn(x, createdNew)

\* An item created in the feed while the cycles were failing has been
\* fetched and stored by a later cycle.
CreatedItemStoredAfterOutage ==
    /\ pc = "cooldown"
    /\ err = NoErr
    /\ cycle >= 1
    /\ \E x \in createdInOutage :
          /\ x \in Range(actions.items)
          /\ x \in acked
          /\ BagIn(x, store)

\* C12: the program counter only moves along connect, seed, fetch, filter,
\* persist, cooldown, fetch (a failed fetch going straight to cooldown); the
\* append is reached only with a successful fetch and the filter result of
\* the same batch; a fetch starts only when every earlier fetch has been
\* followed by its sleep, so at most one cycle is in progress.
CyclesSequential ==
    [][/\ pc' # pc =>
             <<pc, pc'>> \in {<<"connect", "seed">>, <<"connect", "exit">>,
                              <<"seed", "fetch">>, <<"fetch", "filter">>,
                              <<"fetch", "cooldown">>, <<"filter", "persist">>,
                              <<"persist", "cooldown">>, <<"cooldown", "fetch">>}
       /\ (pc = "fetch" /\ pc' = "cooldown") => err' \in FetchFailures
       /\ pc' = "persist" =>
             /\ err' = NoErr
             /\ <<newActions', maxTimestampAfterInsertion'>> =
                   filter(lastInsertedTimestamp', actions')
       /\ fetches' # fetches =>
             /\ fetches' = fetches + 1
             /\ Len(slept) = fetches
       /\ fetches' - Len(slept') \in {0, 1}
       /\ cycle' # cycle => (pc = "cooldown" /\ pc' = "fetch")]_vars

\* The second cycle has reached its append with something to store.
SecondCycleAtAppend ==
    /\ pc = "persist"
    /\ fetches = 2
    /\ Len(slept) = 1
    /\ Len(newActions.items) >= 1

\* C16: when NewMongoStore fails, the process has ended: the watermark was
\* never read, no scheduler was built, nothing was fetched or appended, and
\* no step follows.
StoreFailureStopsProcess ==
    err \in {"connect", "ping"} =>
        /\ pc = "exit"
        /\ lastInsertedTimestamp = 0
        /\ cooldown = 0
        /\ fetches = 0
        /\ fetched = {}
        /\ store = storeAtCycleStart
        /\ ~ ENABLED Next

\* The ping failed against a store that holds documents.
PingFailedOnFilledStore ==
    /\ pc = "exit"
    /\ err = "ping"
    /\ store # EmptyBag

\* C17: the filter step changes neither the watermark nor the batch nor the
\* store, so filtering the batch again in the state it leaves behind gives
\* the newActions and the candidate it has just returned.
FilterLeavesStateAlone ==
    [][(pc = "filter" /\ pc' = "persist") =>
          /\ lastInsertedTimestamp' = lastInsertedTimestamp
          /\ actions' = actions
          /\ store' = store
          /\ cooldown' = cooldown
          /\ filter(lastInsertedTimestamp', actions') =
                <<newActions', maxTimestampAfterInsertion'>>]_vars

\* filter has split a batch into a stale and a new part.
FilterSplitBatch ==
    /\ pc = "persist"
    /\ Len(newActions.items) >= 1
    /\ Len(actions.items) > Len(newActions.items)
    /\ maxTimestampAfterInsertion > lastInsertedTimestamp

\* C18: the loop never changes sch.cooldown; a failed fetch, a failed append
\* and a successful append all lead to the sleep; every sleep lasts the
\* configured duration; and each fetch is followed by one sleep before the
\* next fetch.
CooldownFixed ==
    [][/\ pc \in StartPcs => cooldown' = cooldown
       /\ (pc \in {"fetch", "persist"} /\ pc' \notin {pc, "filter"}) =>
             pc' = "cooldown"
       /\ (pc = "cooldown" /\ pc' # pc) =>
             /\ pc' = "fetch"
             /\ slept' = Append(slept, CoolDown(kDefaultCoolDownMinutes))
       /\ fetches' - Len(slept') \in {0, 1}]_vars

\* The scheduler has slept after a cycle that stored items and again after
\* a cycle that failed.
SleptAfterSuccessAndFailure ==
    /\ pc = "fetch"
    /\ Len(slept) = 2
    /\ failures = 1
    /\ acked # {}

\* C19: RecentActions returns a nil error exactly when no stage failed and
\* the status is OK, and then the parsed result; in every other case it
\* returns an error and no items, and Start goes to cooldown with the store,
\* the watermark and newActions untouched, whichever stage failed.
FetchErrorsUniform ==
    [][(pc = "fetch" /\ fetches' = fetches + 1) =>
          /\ (err' = NoErr) <=> (response'.failure = "none")
          /\ response'.failure = "none" =>
                /\ actions' = response'.result
                /\ pc' = "filter"
          /\ response'.failure # "none" =>
                /\ err' = response'.failure
                /\ actions' = NilSlice
                /\ pc' = "cooldown"
                /\ store' = store
                /\ lastInsertedTimestamp' = lastInsertedTimestamp
                /\ newActions' = NilSlice]_vars

\* A well-formed response with a status that is not OK carried an item.
StatusErrorWithBody ==
    /\ pc = "cooldown"
    /\ response.failure = "status"
    /\ Len(response.result.items) = 1
    /\ actions = NilSlice

\* C20: while the seed was the store's maximum and no failed append has left
\* documents behind, every stored item is at or below the watermark, and at
\* the end of a cycle the watermark is above its value at the start exactly
\* when the cycle added to the store, and is then the largest timeSeconds
\* appended.
StoreAtOrBelowWatermark ==
    (storeFaithful /\ pc \in StartPcs) =>
        /\ \A d \in BagToSet(store) : d.timeSeconds <= lastInsertedTimestamp
        /\ pc = "cooldown" =>
              /\ (lastInsertedTimestamp > wmAtCycleStart)
                    <=> (BagCardinality(store) > BagCardinality(storeAtCycleStart))
              /\ lastInsertedTimestamp > wmAtCycleStart =>
                    lastInsertedTimestamp = MaxOf(Times(newActions.items))

\* A filled store has grown in a later cycle and the watermark with it.
FaithfulStoreGrew ==
    /\ pc = "cooldown"
    /\ storeFaithful
    /\ cycle >= 1
    /\ storeAtCycleStart # EmptyBag
    /\ BagCardinality(store) = BagCardinality(storeAtCycleStart) + 2

\* C14 as stated: AddRecentActions with a nil or an empty slice returns no
\* error and adds nothing, and a call that returns no error has added every
\* item it was given.
EmptyOrNilAppendIsNoOp ==
    apiCall.op = "add" =>
        /\ Len(apiCall.actions.items) = 0 =>
              /\ apiResult.err = NoErr
              /\ apiResult.added = EmptyBag
        /\ apiResult.err = NoErr =>
              apiResult.added = SeqToBag(apiCall.actions.items)

\* AddRecentActions was called with a slice that is empty and not nil.
EmptySliceAppended ==
    /\ apiCall.op = "add"
    /\ ~ apiCall.actions.isNil
    /\ apiCall.actions.items = <<>>

\* C15 as stated: a successful QueryRecentActions(timestamp) returns exactly
\* the stored documents with timeSeconds strictly greater than timestamp.
QueryReturnsStrictlyAfter ==
    (apiCall.op = "query" /\ apiResult.err = NoErr) =>
        apiResult.docs =
            [d \in {x \in BagToSet(store) : x.timeSeconds > apiCall.timestamp}
                |-> store[d]]

\* QueryRecentActions was called with the timeSeconds of a stored document.
QueriedAtStoredTimestamp ==
    /\ apiCall.op = "query"
    /\ apiResult.err = NoErr
    /\ \E d \in BagToSet(store) : d.timeSeconds = apiCall.timestamp

====
